---- MODULE Spec2Model ----
(***************************************************************************)
(* Model of park_ihlal.py: the ParkingViolationSystem class and the        *)
(* Streamlit script that drives it.  The script is run from the top on     *)
(* every user interaction; st.session_state survives the runs, the         *)
(* ParkingViolationSystem instance (and its violation_tracker) does not.   *)
(* The detector (YOLO.track) is external: the road polygons and the        *)
(* tracked boxes it reports are the inputs of a frame.  One iteration of   *)
(* the frame loop is one step.                                             *)
(***************************************************************************)
EXTENDS Integers, Sequences, FiniteSets, TLC

VARIABLES
    violation_log,      \* st.session_state.violation_log (list of records)
    penalized_ids,      \* st.session_state.penalized_ids (set of track ids)
    violation_tracker,  \* self.violation_tracker (dict track id -> counter)
    pc,                 \* position of the script: "idle", "loop", "report"
    stop_btn,           \* the stop_btn argument of the running process_video
    min_h,              \* the min_h_curr argument of the running process_video
    frames,             \* frames the open capture can still deliver
    report,             \* what generate_report rendered in the current run
    last,               \* the last step taken, how it saw each track and
                        \* what it drew for each track on the shown frame
    captures,           \* calls of _log_violation per track id since the reset
    offrun              \* off-road sightings per track id since its last
                        \* on-road sighting in the running script, counted
                        \* while the track is not penalized

vars == <<violation_log, penalized_ids, violation_tracker, pc, stop_btn,
          min_h, frames, report, last, captures, offrun>>

-----------------------------------------------------------------------------
(* Bounds of the model *)

MaxTrack == 1
MaxFrames == 17

(* Program constants *)

tolerance == 5
violation_threshold == 15
FrameW == 1280
FrameH == 720

Tracks == 1..MaxTrack
VideoLens == {0, MaxFrames}
MinHeights == {50}

\* Class names of the loaded model; class 0 is a road class, class 1 a vehicle.
names == <<"road", "car">>
ClassIds == {0, 1}
ClassName(c) == names[c + 1]
road_ids == {k \in ClassIds : ClassName(k) \in {"road", "yol"}}
vehicle_ids_found ==
    {k \in ClassIds : ClassName(k) \in {"car", "vehicle", "truck", "bus"}}
vehicle_ids == IF vehicle_ids_found = {} THEN {0, 1, 2, 3} ELSE vehicle_ids_found

Max(a, b) == IF a > b THEN a ELSE b
Min(a, b) == IF a < b THEN a ELSE b

-----------------------------------------------------------------------------
(* The inputs of one frame: what the detector and the tracker report *)

\* Road polygons the segmentation reports: a band across the whole frame
\* width, between the rows ylo and yhi.  A frame shows it or no road at all.
RoadPolys == { [ylo |-> 300, yhi |-> 400] }

\* Bounding boxes the detector reports (pixel coordinates inside the frame),
\* named by the row of their bottom edge: 50 px high boxes ending 5 px
\* inside, 3 px inside and 3 px outside the lower edge of the road band, a
\* 40 px high box in the middle of the band, and a 50 px high box of zero
\* width.
Boxes == { [x1 |-> 100, y1 |-> 345, x2 |-> 200, y2 |-> 395],
           [x1 |-> 100, y1 |-> 347, x2 |-> 200, y2 |-> 397],
           [x1 |-> 100, y1 |-> 353, x2 |-> 200, y2 |-> 403],
           [x1 |-> 100, y1 |-> 310, x2 |-> 200, y2 |-> 350],
           [x1 |-> 150, y1 |-> 345, x2 |-> 150, y2 |-> 395] }

\* The box of a detection of another class than a vehicle.
RoadBox == [x1 |-> 0, y1 |-> 300, x2 |-> 1280, y2 |-> 400]

\* One tracked detection: track id, class id, box.
Detections ==
    [id : Tracks, cls : ClassIds \ road_ids, box : Boxes]
      \cup [id : Tracks, cls : road_ids, box : {RoadBox}]

\* Detection lists of a frame: the tracker gives each object of a frame its
\* own id, reported here in increasing order.
DetLists ==
    UNION { { ds \in [1..n -> Detections] :
                \A i \in 1..n : \A j \in 1..n : i < j => ds[i].id < ds[j].id } :
            n \in 0..MaxTrack }

\* cv2.pointPolygonTest(poly, (x, y), True) for a band and a point of the
\* frame: the distance to the nearest edge, positive inside, negative outside
\* (a point of the frame outside a band lies straight above or below it).
pointPolygonTest(poly, x, y) ==
    IF y < poly.ylo THEN y - poly.ylo
    ELSE IF y > poly.yhi THEN poly.yhi - y
    ELSE Min(Min(y - poly.ylo, poly.yhi - y), Min(x, FrameW - x))

-----------------------------------------------------------------------------
(* How a frame shows a track, read off the inputs alone *)

NoObs == [t \in Tracks |-> "none"]
NoRun == [t \in Tracks |-> 0]

\* "none": no vehicle detection of the track in the frame; "small": box
\* lower than the height filter; "on": bottom-centre point inside some road
\* polygon of the frame by at least 5 px; "off": every other vehicle
\* detection.
ObsOf(d, mh, polys) ==
    IF ClassName(d.cls) # "car" THEN "none"
    ELSE IF d.box.y2 - d.box.y1 < mh THEN "small"
    ELSE IF \E p \in polys :
              /\ p.ylo + 5 <= d.box.y2
              /\ d.box.y2 <= p.yhi - 5
              /\ (d.box.x1 + d.box.x2) \div 2 >= 5
              /\ (d.box.x1 + d.box.x2) \div 2 <= 1275
         THEN "on"
    ELSE "off"

\* The off-road sightings of each track since its last on-road sighting,
\* counted as long as the track is not penalized.
OffRun(run, obs, pen) ==
    [t \in Tracks |-> IF t \in pen THEN run[t]
                      ELSE IF obs[t] = "off" THEN run[t] + 1
                      ELSE IF obs[t] = "on" THEN 0
                      ELSE run[t]]

ObsAll(ds, mh, polys) ==
    [t \in Tracks |->
        IF \E i \in DOMAIN ds : ds[i].id = t
        THEN ObsOf(ds[CHOOSE i \in DOMAIN ds : ds[i].id = t], mh, polys)
        ELSE "none"]

-----------------------------------------------------------------------------
(* ParkingViolationSystem *)

\* The state _check_vehicle and _log_violation read and write.
Mem == [trk |-> violation_tracker, pen |-> penalized_ids,
        log |-> violation_log, cap |-> captures]

img_name(v_type, track_id) == <<v_type, track_id>>

\* Number of pixels of frame[max(0,y1):min(720,y2), max(0,x1):min(1280,x2)]
CropSize(box) ==
    Max(0, Min(FrameH, box.y2) - Max(0, box.y1))
      * Max(0, Min(FrameW, box.x2) - Max(0, box.x1))

ViolationRecord(track_id, v_type) ==
    [id |-> track_id, vtype |-> v_type, status |-> "ILLEGAL PARKING",
     evidence |-> img_name(v_type, track_id)]

\* _log_violation that adds the id to penalized_ids inside the crop test.
log_violation_PenalizeIfCrop(m, box, track_id, v_type) ==
    LET m1 == [m EXCEPT !.cap = [@ EXCEPT ![track_id] = @ + 1]]
    IN  IF CropSize(box) > 0
        THEN [m1 EXCEPT !.pen = @ \cup {track_id},
                        !.log = Append(@, ViolationRecord(track_id, v_type))]
        ELSE m1

log_violation(m, box, track_id, v_type) ==
    LET m1 == [m EXCEPT !.pen = @ \cup {track_id},
                        !.cap = [@ EXCEPT ![track_id] = @ + 1]]
    IN  IF CropSize(box) > 0
        THEN [m1 EXCEPT !.log = Append(@, ViolationRecord(track_id, v_type))]
        ELSE m1

center_x(box) == (box.x1 + box.x2) \div 2
center_y(box) == box.y2

\* A test with slack outside the polygon: up to tolerance beyond an edge.
on_road_Slack(box, road_polygons) ==
    \E poly \in road_polygons :
        pointPolygonTest(poly, center_x(box), center_y(box)) >= -tolerance

\* A test that asks every polygon instead of some polygon.
on_road_AllPolygons(box, road_polygons) ==
    \A poly \in road_polygons :
        pointPolygonTest(poly, center_x(box), center_y(box)) >= tolerance

on_road(box, road_polygons) ==
    \E poly \in road_polygons :
        pointPolygonTest(poly, center_x(box), center_y(box)) >= tolerance

TooSmall_Width(box, mh) == (box.x2 - box.x1) < mh

TooSmall(box, mh) == (box.y2 - box.y1) < mh

OverThreshold_AtLeast(n) == n >= violation_threshold

OverThreshold(n) == n > violation_threshold

Counter_InitOne(trk, track_id) ==
    IF track_id \in DOMAIN trk THEN trk[track_id] ELSE 1

Counter(trk, track_id) == IF track_id \in DOMAIN trk THEN trk[track_id] ELSE 0

SetCounter(trk, track_id, n) ==
    [t \in DOMAIN trk \cup {track_id} |-> IF t = track_id THEN n ELSE trk[t]]

\* Variants of _check_vehicle: without the "Already Penalized?" return,
\* with an on-road branch that leaves the counter alone, and with one that
\* counts down.
check_vehicle_NoPenalizedCheck(m, d, mh, road_polygons) ==
    IF TooSmall(d.box, mh) THEN m
    ELSE IF on_road(d.box, road_polygons)
    THEN [m EXCEPT !.trk = SetCounter(@, d.id, 0)]
    ELSE LET n == Counter(m.trk, d.id) + 1
             m1 == [m EXCEPT !.trk = SetCounter(@, d.id, n)]
         IN  IF OverThreshold(n)
             THEN log_violation(m1, d.box, d.id, ClassName(d.cls))
             ELSE m1

check_vehicle_NoReset(m, d, mh, road_polygons) ==
    IF TooSmall(d.box, mh) THEN m
    ELSE IF d.id \in m.pen THEN m
    ELSE IF on_road(d.box, road_polygons)
    THEN [m EXCEPT !.trk = SetCounter(@, d.id, Counter(m.trk, d.id))]
    ELSE LET n == Counter(m.trk, d.id) + 1
             m1 == [m EXCEPT !.trk = SetCounter(@, d.id, n)]
         IN  IF OverThreshold(n)
             THEN log_violation(m1, d.box, d.id, ClassName(d.cls))
             ELSE m1

check_vehicle_CountDown(m, d, mh, road_polygons) ==
    IF TooSmall(d.box, mh) THEN m
    ELSE IF d.id \in m.pen THEN m
    ELSE IF on_road(d.box, road_polygons)
    THEN [m EXCEPT !.trk = SetCounter(@, d.id, Max(0, Counter(m.trk, d.id) - 1))]
    ELSE LET n == Counter(m.trk, d.id) + 1
             m1 == [m EXCEPT !.trk = SetCounter(@, d.id, n)]
         IN  IF OverThreshold(n)
             THEN log_violation(m1, d.box, d.id, ClassName(d.cls))
             ELSE m1

check_vehicle(m, d, mh, road_polygons) ==
    IF TooSmall(d.box, mh) THEN m
    ELSE IF d.id \in m.pen THEN m
    ELSE IF on_road(d.box, road_polygons) THEN [m EXCEPT !.trk = SetCounter(@, d.id, 0)]
    ELSE LET n == Counter(m.trk, d.id) + 1
             m1 == [m EXCEPT !.trk = SetCounter(@, d.id, n)]
         IN  IF OverThreshold(n)
             THEN log_violation(m1, d.box, d.id, ClassName(d.cls))
             ELSE m1

\* A drawing order that asks for the penalized id before the box height.
Label_PenalizedFirst(m, d, mh, road_polygons) ==
    IF d.id \in m.pen THEN "PENALIZED"
    ELSE IF TooSmall(d.box, mh) THEN "none"
    ELSE IF on_road(d.box, road_polygons) THEN "Clean"
    ELSE IF OverThreshold(Counter(m.trk, d.id) + 1) THEN "VIOLATION!"
    ELSE "Analyzing"

\* What _check_vehicle draws on the frame for detection d (rectangle and
\* text): "none" when it returns at the size filter without drawing.
Label(m, d, mh, road_polygons) ==
    IF TooSmall(d.box, mh) THEN "none"
    ELSE IF d.id \in m.pen THEN "PENALIZED"
    ELSE IF on_road(d.box, road_polygons) THEN "Clean"
    ELSE IF OverThreshold(Counter(m.trk, d.id) + 1) THEN "VIOLATION!"
    ELSE "Analyzing"

\* The labels on the frame handed to stframe.image, per track id.  A frame
\* reports each id once, so the call for an id reads the counter and the
\* penalized_ids membership the id had when the frame began.
Labels(m, ds, mh, road_polygons) ==
    [t \in Tracks |->
        LET calls == {i \in DOMAIN ds : ds[i].id = t /\ ds[i].cls \in vehicle_ids}
        IN  IF calls = {} THEN "none"
            ELSE Label(m, ds[CHOOSE i \in calls : TRUE], mh, road_polygons)]

\* The loop over the detections of one frame (lines 101-103).
RECURSIVE AnalyzeVehicles(_, _, _, _, _)
AnalyzeVehicles(m, ds, i, mh, road_polygons) ==
    IF i > Len(ds) THEN m
    ELSE AnalyzeVehicles(
            IF ds[i].cls \in vehicle_ids
            THEN check_vehicle(m, ds[i], mh, road_polygons)
            ELSE m,
            ds, i + 1, mh, road_polygons)

SetMem(m) ==
    /\ violation_tracker' = m.trk
    /\ penalized_ids' = m.pen
    /\ violation_log' = m.log
    /\ captures' = m.cap

-----------------------------------------------------------------------------
(* The script *)

NoReport == [shown |-> "none", rows |-> <<>>, images |-> {}]
NoCaptures == [t \in Tracks |-> 0]

Init ==
    /\ violation_log = <<>>
    /\ penalized_ids = {}
    /\ violation_tracker = <<>>
    /\ pc = "idle"
    /\ stop_btn = FALSE
    /\ min_h = 50
    /\ frames = 0
    /\ report = NoReport
    /\ last = [ev |-> "init", obs |-> NoObs]
    /\ captures = NoCaptures
    /\ offrun = NoRun

\* A run whose ParkingViolationSystem keeps the counters of the run before.
StartRun_KeepsTracker(upl, stop, mh) ==
    /\ UNCHANGED <<violation_tracker, offrun>>
    /\ report' = NoReport
    /\ min_h' = mh
    /\ IF upl >= 0
       THEN pc' = "loop" /\ frames' = upl /\ stop_btn' = stop
       ELSE pc' = "idle" /\ frames' = 0 /\ stop_btn' = FALSE

\* Lines 227-252 of a run in which the reset button is not the trigger:
\* a new ParkingViolationSystem (empty violation_tracker, session state
\* kept), the widgets read, and with an uploaded file process_video entered.
\* upl is the length of the uploaded video, or -1 without an upload.
StartRun(upl, stop, mh) ==
    /\ violation_tracker' = <<>>
    /\ offrun' = NoRun
    /\ report' = NoReport
    /\ min_h' = mh
    /\ IF upl >= 0
       THEN pc' = "loop" /\ frames' = upl /\ stop_btn' = stop
       ELSE pc' = "idle" /\ frames' = 0 /\ stop_btn' = FALSE

SessionValue_Overwrite(current, fresh) == fresh

\* Lines 34-37: a key of st.session_state that exists keeps its value.
SessionValue(current, fresh) == current

KeepSession ==
    /\ violation_log' = SessionValue(violation_log, <<>>)
    /\ penalized_ids' = SessionValue(penalized_ids, {})
    /\ UNCHANGED captures

\* A widget other than the two buttons changed (slider, upload).
Rerun(upl, mh) ==
    /\ StartRun(upl, FALSE, mh)
    /\ last' = [ev |-> "rerun", obs |-> NoObs]
    /\ KeepSession

\* The stop button was clicked: it is rendered only with an uploaded file.
StopClick(upl, mh) ==
    /\ upl >= 0
    /\ StartRun(upl, TRUE, mh)
    /\ last' = [ev |-> "stop", obs |-> NoObs]
    /\ KeepSession

\* The reset button was clicked: clear_system, whose st.rerun() runs the
\* script again from the top with no button pressed.
clear_system_PenalizedOnly ==
    /\ penalized_ids' = {}
    /\ UNCHANGED <<violation_log, captures>>

clear_system_LogOnly ==
    /\ violation_log' = <<>>
    /\ captures' = NoCaptures
    /\ UNCHANGED penalized_ids

clear_system ==
    /\ violation_log' = <<>>
    /\ penalized_ids' = {}
    /\ captures' = NoCaptures

ResetClick(upl, mh) ==
    /\ clear_system
    /\ StartRun(upl, FALSE, mh)
    /\ last' = [ev |-> "reset", obs |-> NoObs]

\* process_video, one iteration that breaks: stop_btn set, or no frame left.
LoopStop ==
    /\ pc = "loop"
    /\ stop_btn
    /\ pc' = "report"
    /\ last' = [ev |-> "break_stop", obs |-> NoObs]
    /\ UNCHANGED <<violation_log, penalized_ids, violation_tracker,
                   stop_btn, min_h, frames, report, captures, offrun>>

\* A loop that goes on when cap.read() delivers nothing.
LoopEnd_Continue ==
    /\ pc = "loop"
    /\ ~stop_btn
    /\ frames = 0
    /\ last' = [ev |-> "break_end", obs |-> NoObs]
    /\ UNCHANGED <<violation_log, penalized_ids, violation_tracker, pc,
                   stop_btn, min_h, frames, report, captures, offrun>>

LoopEnd ==
    /\ pc = "loop"
    /\ ~stop_btn
    /\ frames = 0
    /\ pc' = "report"
    /\ last' = [ev |-> "break_end", obs |-> NoObs]
    /\ UNCHANGED <<violation_log, penalized_ids, violation_tracker,
                   stop_btn, min_h, frames, report, captures, offrun>>

\* A handler of the detector's exception that leaves the loop.
FrameFail_Break ==
    /\ pc = "loop"
    /\ ~stop_btn
    /\ frames > 0
    /\ frames' = frames - 1
    /\ pc' = "report"
    /\ last' = [ev |-> "fail", obs |-> NoObs]
    /\ UNCHANGED <<violation_log, penalized_ids, violation_tracker,
                   stop_btn, min_h, report, captures, offrun>>

\* One iteration whose model.track call raises: continue.
FrameFail ==
    /\ pc = "loop"
    /\ ~stop_btn
    /\ frames > 0
    /\ frames' = frames - 1
    /\ last' = [ev |-> "fail", obs |-> NoObs]
    /\ UNCHANGED <<violation_log, penalized_ids, violation_tracker, pc,
                   stop_btn, min_h, report, captures, offrun>>

\* What a processed frame showed of each track.
Observe(ds, road_polygons) ==
    LET obs == ObsAll(ds, min_h, road_polygons)
    IN  /\ last' = [ev |-> "frame", obs |-> obs,
                    lbl |-> Labels(Mem, ds, min_h, road_polygons)]
        /\ offrun' = OffRun(offrun, obs, penalized_ids)

\* A loop that reads stop_btn only before its first iteration.
Frame_IgnoresStop(road_polygons, ds) ==
    /\ pc = "loop"
    /\ frames > 0
    /\ frames' = frames - 1
    /\ SetMem(AnalyzeVehicles(Mem, ds, 1, min_h, road_polygons))
    /\ Observe(ds, road_polygons)
    /\ UNCHANGED <<pc, stop_btn, min_h, report>>

\* One full iteration: the frame is read, the detector answers, every
\* vehicle detection goes through _check_vehicle.
Frame(road_polygons, ds) ==
    /\ pc = "loop"
    /\ ~stop_btn
    /\ frames > 0
    /\ frames' = frames - 1
    /\ SetMem(AnalyzeVehicles(Mem, ds, 1, min_h, road_polygons))
    /\ Observe(ds, road_polygons)
    /\ UNCHANGED <<pc, stop_btn, min_h, report>>

\* generate_report (line 260, after the loop).  exists is the set of rows
\* for whose evidence image os.path.exists answers True.
ReportRows(log) == log

\* generate_report without the test of lines 186-188.
generate_report_NoEmptyCheck(exists) ==
    /\ pc = "report"
    /\ exists \subseteq DOMAIN violation_log
    /\ pc' = "idle"
    /\ report' = [shown |-> "sheet", rows |-> ReportRows(violation_log),
                  images |-> exists]
    /\ last' = [ev |-> "report", obs |-> NoObs]
    /\ UNCHANGED <<violation_log, penalized_ids, violation_tracker,
                   stop_btn, min_h, frames, captures, offrun>>

\* generate_report that writes only the rows whose image file exists.
generate_report_SkipsMissing(exists) ==
    /\ pc = "report"
    /\ exists \subseteq DOMAIN violation_log
    /\ pc' = "idle"
    /\ report' = IF violation_log = <<>>
                 THEN [shown |-> "warning", rows |-> <<>>, images |-> {}]
                 ELSE [shown |-> "sheet",
                       rows |-> SelectSeq(ReportRows(violation_log),
                                   LAMBDA r : \E i \in exists : violation_log[i] = r),
                       images |-> exists]
    /\ last' = [ev |-> "report", obs |-> NoObs]
    /\ UNCHANGED <<violation_log, penalized_ids, violation_tracker,
                   stop_btn, min_h, frames, captures, offrun>>

generate_report(exists) ==
    /\ pc = "report"
    /\ exists \subseteq DOMAIN violation_log
    /\ pc' = "idle"
    /\ report' = IF violation_log = <<>>
                 THEN [shown |-> "warning", rows |-> <<>>, images |-> {}]
                 ELSE [shown |-> "sheet", rows |-> ReportRows(violation_log),
                       images |-> exists]
    /\ last' = [ev |-> "report", obs |-> NoObs]
    /\ UNCHANGED <<violation_log, penalized_ids, violation_tracker,
                   stop_btn, min_h, frames, captures, offrun>>

Next ==
    \/ \E upl \in {-1} \cup VideoLens, mh \in MinHeights : Rerun(upl, mh)
    \/ \E upl \in VideoLens, mh \in MinHeights : StopClick(upl, mh)
    \/ \E upl \in {-1} \cup VideoLens, mh \in MinHeights : ResetClick(upl, mh)
    \/ LoopStop
    \/ LoopEnd
    \/ FrameFail
    \/ \E road_polygons \in SUBSET RoadPolys : \E ds \in DetLists :
          Frame(road_polygons, ds)
    \/ \E exists \in SUBSET Tracks : generate_report(exists)

Spec == Init /\ [][Next]_vars

\* Sessions in which no interaction cuts a run short: the user touches a
\* widget only while the script is idle.  A run that nothing replaces goes
\* on: a loop that can break breaks, and the report after it is rendered.
NextWholeRuns ==
    \/ /\ pc = "idle"
       /\ \E upl \in {-1} \cup VideoLens, mh \in MinHeights : Rerun(upl, mh)
    \/ /\ pc = "idle"
       /\ \E upl \in VideoLens, mh \in MinHeights : StopClick(upl, mh)
    \/ /\ pc = "idle"
       /\ \E upl \in {-1} \cup VideoLens, mh \in MinHeights : ResetClick(upl, mh)
    \/ LoopStop
    \/ LoopEnd
    \/ FrameFail
    \/ \E road_polygons \in SUBSET RoadPolys : \E ds \in DetLists :
          Frame(road_polygons, ds)
    \/ \E exists \in SUBSET Tracks : generate_report(exists)

SpecWholeRuns ==
    /\ Init
    /\ [][NextWholeRuns]_vars
    /\ WF_vars(LoopStop)
    /\ WF_vars(LoopEnd)
    /\ WF_vars(\E exists \in SUBSET Tracks : generate_report(exists))

\* The script on videos in which the segmentation never reports a road:
\* road_polygons is the empty list in every frame.
NextNoRoad ==
    \/ \E upl \in {-1} \cup VideoLens, mh \in MinHeights : Rerun(upl, mh)
    \/ \E upl \in VideoLens, mh \in MinHeights : StopClick(upl, mh)
    \/ \E upl \in {-1} \cup VideoLens, mh \in MinHeights : ResetClick(upl, mh)
    \/ LoopStop
    \/ LoopEnd
    \/ FrameFail
    \/ \E ds \in DetLists : Frame({}, ds)
    \/ \E exists \in SUBSET Tracks : generate_report(exists)

SpecNoRoad == Init /\ [][NextNoRoad]_vars

\* A box whose bottom-centre point lies outside every road polygon and
\* within tolerance of the edge of one (signed distance in -tolerance..-1).
NearOutside(box) ==
    /\ \A poly \in RoadPolys :
          pointPolygonTest(poly, center_x(box), center_y(box)) < 0
    /\ \E poly \in RoadPolys :
          pointPolygonTest(poly, center_x(box), center_y(box)) >= -tolerance

NearOutsideLists ==
    { ds \in DetLists :
        \A i \in DOMAIN ds : ds[i].cls \in vehicle_ids => NearOutside(ds[i].box) }

\* The script on videos in which every frame shows the road and every
\* vehicle stands just outside its edge.
NextNearOutside ==
    \/ \E upl \in {-1} \cup VideoLens, mh \in MinHeights : Rerun(upl, mh)
    \/ \E upl \in VideoLens, mh \in MinHeights : StopClick(upl, mh)
    \/ \E upl \in {-1} \cup VideoLens, mh \in MinHeights : ResetClick(upl, mh)
    \/ LoopStop
    \/ LoopEnd
    \/ FrameFail
    \/ \E ds \in NearOutsideLists : Frame(RoadPolys, ds)
    \/ \E exists \in SUBSET Tracks : generate_report(exists)

SpecNearOutside == Init /\ [][NextNearOutside]_vars

-----------------------------------------------------------------------------
(* Properties *)

\* The records of the log that name track t.
RecordsOf(log, t) == SelectSeq(log, LAMBDA r : r.id = t)

\* The counter _check_vehicle would read for track t.
CounterOf(trk, t) == IF t \in DOMAIN trk THEN trk[t] ELSE 0

SameCounter(t) ==
    /\ (t \in DOMAIN violation_tracker') = (t \in DOMAIN violation_tracker)
    /\ t \in DOMAIN violation_tracker => violation_tracker'[t] = violation_tracker[t]

\* Steps that start a new run of the script.
RunEvents == {"rerun", "stop", "reset"}

\* C1: between two resets the log holds at most one record per track id and
\* _log_violation is called at most once per track id.
C1_OneRecordPerTrack ==
    \A t \in Tracks :
        /\ Len(RecordsOf(violation_log, t)) <= 1
        /\ captures[t] <= 1

\* A penalized track with its record, seen off-road again by a later run.
C1_Witness ==
    \E t \in Tracks :
        /\ t \in penalized_ids
        /\ Len(RecordsOf(violation_log, t)) = 1
        /\ last.ev = "frame"
        /\ last.obs[t] = "off"
        /\ t \notin DOMAIN violation_tracker

\* C2: a track id has a record in the log exactly if it is in penalized_ids
\* (as the claim states it, empty crops included).
C2_RecordIffPenalized ==
    \A t \in Tracks :
        (Len(RecordsOf(violation_log, t)) > 0) <=> (t \in penalized_ids)

\* C3: on an off-road frame of a track that is not penalized, the violation
\* fires exactly if this is sighting violation_threshold + 1 of the off-road
\* run (sighting 16 for the threshold 15), on no earlier one.
C3_FiresAtThresholdPlusOne ==
    [][\A t \in Tracks :
        (last'.ev = "frame" /\ last'.obs[t] = "off" /\ t \notin penalized_ids)
        => /\ (t \in penalized_ids') <=> (offrun'[t] = violation_threshold + 1)
           /\ captures'[t] = IF offrun'[t] = violation_threshold + 1 THEN 1 ELSE 0]_vars

\* The violation has just fired on the 16th off-road frame of the run.
C3_Witness ==
    \E t \in Tracks :
        /\ last.ev = "frame"
        /\ last.obs[t] = "off"
        /\ offrun[t] = violation_threshold + 1
        /\ frames = MaxFrames - (violation_threshold + 1)
        /\ t \in penalized_ids
        /\ captures[t] = 1

\* C4: a step in which the off-road run of a track has not exceeded the
\* threshold neither penalizes the track nor appends a record for it.
C4_NoViolationBelowThreshold ==
    [][\A t \in Tracks :
        offrun'[t] <= violation_threshold
        => /\ t \in penalized_ids' => t \in penalized_ids
           /\ Len(RecordsOf(violation_log', t)) <= Len(RecordsOf(violation_log, t))
           /\ captures'[t] <= captures[t]]_vars

\* Off-road again after an on-road frame cut an earlier off-road run: more
\* frames consumed than the threshold, and the track still not penalized.
C4_Witness ==
    \E t \in Tracks :
        /\ last.ev = "frame"
        /\ last.obs[t] = "off"
        /\ offrun[t] = 1
        /\ violation_tracker[t] = 1
        /\ frames = 0
        /\ t \notin penalized_ids
        /\ captures[t] = 0
        /\ violation_log = <<>>

\* C5: a frame that shows a track that is not penalized on-road (box not
\* below the height filter) leaves its counter at exactly 0.
C5_OnRoadResetsCounter ==
    [][\A t \in Tracks :
        (last'.ev = "frame" /\ last'.obs[t] = "on" /\ t \notin penalized_ids)
        => /\ t \in DOMAIN violation_tracker'
           /\ violation_tracker'[t] = 0]_vars

\* An on-road frame late in a run: counter 0, track not penalized.
C5_Witness ==
    \E t \in Tracks :
        /\ last.ev = "frame"
        /\ last.obs[t] = "on"
        /\ t \notin penalized_ids
        /\ t \in DOMAIN violation_tracker
        /\ violation_tracker[t] = 0
        /\ frames < MaxFrames - 3

\* C6: a frame that shows a track that is not penalized off-road (box not
\* below the height filter) raises its counter by exactly 1, from 0 at a
\* first sighting.
C6_OffRoadAddsOne ==
    [][\A t \in Tracks :
        (last'.ev = "frame" /\ last'.obs[t] = "off" /\ t \notin penalized_ids)
        => /\ t \in DOMAIN violation_tracker'
           /\ violation_tracker'[t] = CounterOf(violation_tracker, t) + 1]_vars

\* Third consecutive off-road frame of a track.
C6_Witness ==
    \E t \in Tracks :
        /\ last.ev = "frame"
        /\ last.obs[t] = "off"
        /\ t \notin penalized_ids
        /\ t \in DOMAIN violation_tracker
        /\ violation_tracker[t] = 3

\* C7: a frame that shows a track with a box lower than the height filter
\* changes nothing of that track: counter (and whether it has one),
\* membership in penalized_ids, records.
C7_SmallBoxChangesNothing ==
    [][\A t \in Tracks :
        (last'.ev = "frame" /\ last'.obs[t] = "small")
        => /\ SameCounter(t)
           /\ (t \in penalized_ids') = (t \in penalized_ids)
           /\ RecordsOf(violation_log', t) = RecordsOf(violation_log, t)
           /\ captures'[t] = captures[t]]_vars

\* A low box of a track whose counter is running.
C7_Witness ==
    \E t \in Tracks :
        /\ last.ev = "frame"
        /\ last.obs[t] = "small"
        /\ t \in DOMAIN violation_tracker
        /\ violation_tracker[t] = 2
        /\ t \notin penalized_ids

\* C8: a penalized track id stays penalized through every step but the
\* reset, and a frame changes neither its counter nor its records.
C8_PenalizedAbsorbing ==
    [][\A t \in Tracks :
        t \in penalized_ids
        => /\ last'.ev # "reset" => t \in penalized_ids'
           /\ last'.ev = "frame"
              => /\ SameCounter(t)
                 /\ RecordsOf(violation_log', t) = RecordsOf(violation_log, t)
                 /\ captures'[t] = captures[t]]_vars

\* A penalized track seen on-road by a later run: still penalized, no counter.
C8_Witness ==
    \E t \in Tracks :
        /\ t \in penalized_ids
        /\ last.ev = "frame"
        /\ last.obs[t] = "on"
        /\ t \notin DOMAIN violation_tracker

\* C9: right after a reset penalized_ids is empty and no track has a counter.
C9_ResetClears ==
    last.ev = "reset" => penalized_ids = {} /\ DOMAIN violation_tracker = {}

\* The state right after a reset that re-entered the frame loop.
C9_Witness ==
    /\ last.ev = "reset"
    /\ pc = "loop"
    /\ frames = MaxFrames
    /\ penalized_ids = {}
    /\ violation_log = <<>>

\* C10: with stop_btn set, the steps of the run read no frame and change no
\* counter, penalized_ids or log: the loop breaks at its next iteration, and
\* generate_report then renders the log as it is.
C10_StopEndsLoop ==
    [][(stop_btn /\ pc \in {"loop", "report"} /\ last'.ev \notin RunEvents)
        => /\ UNCHANGED <<frames, violation_tracker, penalized_ids, violation_log>>
           /\ pc = "loop" => pc' = "report"
           /\ pc = "report"
              => /\ pc' = "idle"
                 /\ report'.rows = violation_log
                 /\ report'.shown = IF violation_log = <<>> THEN "warning"
                                    ELSE "sheet"]_vars

\* A stopped run that has rendered the report of a log it did not add to.
C10_Witness ==
    /\ stop_btn
    /\ pc = "idle"
    /\ last.ev = "report"
    /\ report.shown = "sheet"
    /\ report.rows = violation_log
    /\ DOMAIN violation_tracker = {}

\* C11: when no frame has a road polygon, every frame that shows a vehicle
\* of a track that is not penalized, with a box that passes the height
\* filter, raises the counter of the track by 1; no frame resets it.
C11_NoRoadCountsOffRoad ==
    [][\A t \in Tracks :
        (last'.ev = "frame" /\ last'.obs[t] \notin {"none", "small"}
           /\ t \notin penalized_ids)
        => /\ t \in DOMAIN violation_tracker'
           /\ violation_tracker'[t] = CounterOf(violation_tracker, t) + 1
           /\ violation_tracker'[t] > 0]_vars

\* Without any road, a track counted up on each of the first five frames.
C11_Witness ==
    \E t \in Tracks :
        /\ last.ev = "frame"
        /\ last.obs[t] = "off"
        /\ t \notin penalized_ids
        /\ t \in DOMAIN violation_tracker
        /\ violation_tracker[t] = 5
        /\ frames = MaxFrames - 5

C13_FailedFrameSkipped ==
    [][last'.ev = "fail"
        => /\ UNCHANGED <<violation_tracker, penalized_ids, violation_log, captures>>
           /\ pc = "loop" /\ pc' = "loop"
           /\ frames' = frames - 1]_vars

\* The detector failed on a frame after two off-road frames of a track.
C13_Witness ==
    \E t \in Tracks :
        /\ last.ev = "fail"
        /\ pc = "loop"
        /\ t \in DOMAIN violation_tracker
        /\ violation_tracker[t] = 2
        /\ frames = MaxFrames - 3

\* C14: generate_report on an empty log renders the warning and no
\* spreadsheet, and leaves the log and penalized_ids as they are.
C14_EmptyLogWarns ==
    [][(last'.ev = "report" /\ violation_log = <<>>)
        => /\ report' = [shown |-> "warning", rows |-> <<>>, images |-> {}]
           /\ UNCHANGED <<violation_log, penalized_ids>>
           /\ pc' = "idle"]_vars

\* The warning at the end of a video that was read to its last frame and
\* left a track penalized without a record.
C14_Witness ==
    /\ last.ev = "report"
    /\ report.shown = "warning"
    /\ violation_log = <<>>
    /\ penalized_ids # {}
    /\ frames = 0
    /\ ~stop_btn

C16_PenalizedAlwaysRendered ==
    [][\A t \in Tracks :
        (t \in penalized_ids /\ last'.ev = "frame" /\ last'.obs[t] # "none")
        => last'.lbl[t] = "PENALIZED"]_vars

\* C16: the height filter comes first, the penalized check second: a frame
\* that holds a vehicle detection of a penalized track shows it labelled
\* PENALIZED when the box passes the height filter, and draws nothing for
\* it when the box is lower.
C16_FilterBeforePenalized ==
    [][\A t \in Tracks :
        (t \in penalized_ids /\ last'.ev = "frame")
        => /\ last'.obs[t] \in {"on", "off"} => last'.lbl[t] = "PENALIZED"
           /\ last'.obs[t] \in {"small", "none"} => last'.lbl[t] = "none"]_vars

\* A frame with a low box of a penalized track: nothing drawn for it.
C16_Witness ==
    \E t \in Tracks :
        /\ t \in penalized_ids
        /\ last.ev = "frame"
        /\ last.obs[t] = "small"
        /\ last.lbl[t] = "none"

\* C17 as the claim states it: the counters live as long as penalized_ids;
\* no step but the reset (and the frames that count) changes a counter, so
\* a stop, a changed control or a new upload leaves every counter as it was.
C17_CountersLiveWholeSession ==
    [][last'.ev \notin {"reset", "frame"} => \A t \in Tracks : SameCounter(t)]_vars

\* C17: penalized_ids lives for the session and only the reset removes an
\* id from it; the counters live for one run of the script: every new run
\* (stop, changed control, new upload, reset) starts without counters, and
\* within a run only a frame changes a counter.
C17_CountersLiveOneRun ==
    [][/\ last'.ev \in RunEvents => DOMAIN violation_tracker' = {}
       /\ last'.ev \notin RunEvents \cup {"frame"} => UNCHANGED violation_tracker
       /\ last'.ev # "reset" => penalized_ids \subseteq penalized_ids']_vars

\* A stop click after a run that penalized a track: the id is still in
\* penalized_ids, its counter is gone.
C17_Witness ==
    \E t \in Tracks :
        /\ last.ev = "stop"
        /\ pc = "loop"
        /\ t \in penalized_ids
        /\ t \notin DOMAIN violation_tracker

\* C18: every iteration of the frame loop either breaks or consumes one
\* frame of the video and stays in the loop, detector failure or not, and
\* the frames left never go below 0, so a video of n frames allows at most
\* n such iterations; a loop that is stopped or has no frame left breaks,
\* and the report is then rendered; it is rendered once per run: right
\* after the loop has broken, and not again before a new run.
C18_LoopEndsReportOnce ==
    /\ (pc = "loop" /\ (stop_btn \/ frames = 0))
          ~> (pc = "idle" /\ last.ev = "report")
    /\ [][
          /\ frames' >= 0
          /\ (pc = "loop" /\ last'.ev \notin RunEvents)
             => \/ pc' = "report" /\ last'.ev \in {"break_stop", "break_end"}
                \/ /\ pc' = "loop" /\ frames > 0 /\ frames' = frames - 1
                   /\ last'.ev \in {"frame", "fail"}
          /\ last'.ev \in {"frame", "fail"} => pc = "loop" /\ ~stop_btn
          /\ last'.ev = "report"
             => /\ last.ev \in {"break_stop", "break_end"}
                /\ pc = "report" /\ pc' = "idle"
          /\ last.ev = "report" => last'.ev \in RunEvents
       ]_vars

\* The report of a run that read its whole video and counted a track on
\* all frames but one.
C18_Witness ==
    /\ last.ev = "report"
    /\ pc = "idle"
    /\ frames = 0
    /\ ~stop_btn
    /\ report.shown # "none"
    /\ \E t \in Tracks :
          t \in DOMAIN violation_tracker /\ violation_tracker[t] = MaxFrames - 1

\* C19: every counter lies between 0 and violation_threshold + 1, and a
\* track whose counter stands at violation_threshold + 1 is in
\* penalized_ids, whether its crop was empty or not.
C19_CounterBounded ==
    \A t \in DOMAIN violation_tracker :
        /\ violation_tracker[t] >= 0
        /\ violation_tracker[t] <= violation_threshold + 1
        /\ violation_tracker[t] = violation_threshold + 1 => t \in penalized_ids

\* A track that reached 16 with an empty crop, seen off-road once more in
\* the same run: drawn as penalized, counter still 16.
C19_Witness ==
    \E t \in Tracks :
        /\ t \in DOMAIN violation_tracker
        /\ violation_tracker[t] = violation_threshold + 1
        /\ t \in penalized_ids
        /\ Len(RecordsOf(violation_log, t)) = 0
        /\ last.ev = "frame"
        /\ last.obs[t] = "off"
        /\ last.lbl[t] = "PENALIZED"

\* C20: every track id of a record of the log is in penalized_ids, after
\* resets too; and a penalized track without a record (its crop was empty)
\* gets no record in any step that follows, up to the reset.
C20_LoggedIdsPenalized ==
    /\ [](\A i \in DOMAIN violation_log : violation_log[i].id \in penalized_ids)
    /\ [][\A t \in Tracks :
            (t \in penalized_ids /\ Len(RecordsOf(violation_log, t)) = 0)
            => Len(RecordsOf(violation_log', t)) = 0]_vars

\* A track penalized with an empty crop, seen off-road by a later run: still
\* without a record.
C20_Witness ==
    \E t \in Tracks :
        /\ t \in penalized_ids
        /\ Len(RecordsOf(violation_log, t)) = 0
        /\ captures[t] = 1
        /\ last.ev = "frame"
        /\ last.obs[t] = "off"
        /\ t \notin DOMAIN violation_tracker

====
